---- MODULE Spec2Model ----
(***************************************************************************)
(* Wallet strategy abstraction of faithful-archive-dioxus:                 *)
(*   - the strategy manager (registry, discovery, auto-selection),         *)
(*   - the concrete strategies (Wander, Beacon, WalletKit, WebWallet),     *)
(*   - WalletService and the one global ExtendedWalletState it writes.     *)
(* Each asynchronous operation is cut at the provider call it awaits:      *)
(* the part before the await is one action, the part after it another.     *)
(*                                                                         *)
(* Nine specifications share the operators:                                *)
(*   Spec    - two services at once, the operations that write the shared  *)
(*             session state (new, set_strategy, connect, disconnect);     *)
(*   AppSpec - one service, every operation in any sequence, while the     *)
(*             browser globals change (init, sign_transaction included);   *)
(*   MgrSpec - a stand-alone manager over arbitrary strategy objects;      *)
(*   SelectSpec - auto-selection through WalletService::init and through   *)
(*             a manager of the four shipped strategies;                   *)
(*   StrategySpec - the four strategies called through with_strategy_mut;  *)
(*   StatusSpec - check_connection on the strategies and on a service;     *)
(*   ClassifierSpec - WalletError::from applied to a thrown value;         *)
(*   ReconnectSpec - the reconnect hook over the persisted preference;     *)
(*   RaceSpec - Spec with the observer of a connect/disconnect race on.    *)
(***************************************************************************)
EXTENDS Integers, Sequences, FiniteSets, TLC

VARIABLES
    ext,          \* the global ExtendedWalletState signal (mod.rs:105-108)
    env,          \* the browser globals the strategies probe
    manager,      \* manager[s]: the WalletStrategyManager owned by service s
    pc,           \* pc[s]: where service s's current async call is suspended
    overtaken,    \* overtaken[s]: the connect of s is in flight and, since it
                  \* started, the connect of another service returned Ok
    last,         \* the step taken most recently: who, which call, its result
    envChanges,   \* number of changes of the browser globals so far
    mgr,          \* a stand-alone WalletStrategyManager (strategy.rs:144-147)
    mgrRet,       \* the value its last call returned
    storage,      \* localStorage: the two keys of the persisted preference
    ui,           \* the reconnect hook: whether it ran, the tasks it spawned
    race          \* history: a disconnect begun while a connect of another
                  \* service was in flight, and which of the two returned Ok

vars == <<ext, env, manager, pc, overtaken, last, envChanges, mgr, mgrRet,
          storage, ui, race>>

svcVars == <<ext, env, manager, pc, overtaken, last, envChanges>>
mgrVars == <<mgr, mgrRet>>
hookVars == <<storage, ui, race>>

-----------------------------------------------------------------------------
(* Bounds of the model *)

\* how many times the browser globals may change during a run
MaxEnvChanges == 1
\* how many distinct non-empty addresses the providers hand out
NumAddresses == 1

\* The WalletService instances alive at once: every UI callback builds its
\* own, so two calls in flight at once always belong to two services.
Services == {"svcA", "svcB"}

-----------------------------------------------------------------------------
(* Option and Result values *)

NoneV == [some |-> FALSE]
Some(x) == [some |-> TRUE, val |-> x]

Ok(x) == [ok |-> TRUE, val |-> x]
Err(e) == [ok |-> FALSE, err |-> e]
Unit == "()"

-----------------------------------------------------------------------------
(* WalletStrategyType and WalletCapabilities *)

WalletStrategyType == {"Wander", "Beacon", "WalletKit", "WebWallet"}

Caps(sign, enc, dec, batch, perm, multi) ==
    [can_sign_transactions |-> sign, can_encrypt_data |-> enc,
     can_decrypt_data |-> dec, supports_batch_signing |-> batch,
     supports_permissions |-> perm, supports_multiple_addresses |-> multi]

DefaultCapabilities == Caps(TRUE, FALSE, FALSE, FALSE, TRUE, FALSE)

WanderCapabilities == Caps(TRUE, TRUE, TRUE, FALSE, TRUE, TRUE)
BeaconCapabilities == Caps(TRUE, FALSE, FALSE, TRUE, TRUE, FALSE)
WalletKitCapabilities == Caps(TRUE, FALSE, FALSE, TRUE, TRUE, FALSE)
WebWalletCapabilities == Caps(TRUE, FALSE, FALSE, FALSE, FALSE, FALSE)

-----------------------------------------------------------------------------
(* WalletError, its Display text and the classifier From<JsValue> *)

WalletError(kind, msg) == [kind |-> kind, msg |-> msg]
NotInstalled == WalletError("NotInstalled", "")
UserDenied == WalletError("UserDenied", "")
InvalidPermissions == WalletError("InvalidPermissions", "")
NetworkError(m) == WalletError("NetworkError", m)
TransactionFailed(m) == WalletError("TransactionFailed", m)
ConnectionFailed(m) == WalletError("ConnectionFailed", m)
SigningFailed(m) == WalletError("SigningFailed", m)

Display(e) ==
    CASE e.kind = "NotInstalled" -> "No wallet is installed or available"
      [] e.kind = "UserDenied" -> "User denied wallet connection"
      [] e.kind = "NetworkError" -> "Network error: " \o e.msg
      [] e.kind = "InvalidPermissions" -> "Invalid permissions requested"
      [] e.kind = "TransactionFailed" -> "Transaction failed: " \o e.msg
      [] e.kind = "ConnectionFailed" -> "Connection failed: " \o e.msg
      [] e.kind = "SigningFailed" -> "Transaction signing failed: " \o e.msg

UpperChars == "ABCDEFGHIJKLMNOPQRSTUVWXYZ"
LowerChars == "abcdefghijklmnopqrstuvwxyz"

LowerChar(c) ==
    IF \E i \in 1..Len(UpperChars) : SubSeq(UpperChars, i, i) = c
    THEN LET i == CHOOSE j \in 1..Len(UpperChars) : SubSeq(UpperChars, j, j) = c
         IN SubSeq(LowerChars, i, i)
    ELSE c

RECURSIVE ToLowercase(_)
ToLowercase(s) ==
    IF Len(s) = 0 THEN ""
    ELSE LowerChar(SubSeq(s, 1, 1)) \o ToLowercase(SubSeq(s, 2, Len(s)))

Contains(s, k) ==
    \E i \in 1..(Len(s) - Len(k) + 1) : SubSeq(s, i, i + Len(k) - 1) = k

\* A JsValue crossing the provider boundary: a JS string, or another object
\* whose Debug text is JsValue(<text>).
JsString(m) == [isString |-> TRUE, text |-> m]
JsObject(m) == [isString |-> FALSE, text |-> m]

DebugFmt(js) ==
    IF js.isString THEN "JsValue(\"" \o js.text \o "\")"
    ELSE "JsValue(" \o js.text \o ")"

\* a classifier that compares without folding the case
FromJsValue_CaseSensitive(js) ==
    LET error_msg == IF js.isString THEN js.text ELSE DebugFmt(js)
    IN  IF Contains(error_msg, "not installed") \/ Contains(error_msg, "undefined")
        THEN NotInstalled
        ELSE IF Contains(error_msg, "denied") \/ Contains(error_msg, "rejected")
        THEN UserDenied
        ELSE IF Contains(error_msg, "network") THEN NetworkError(error_msg)
        ELSE IF Contains(error_msg, "permission") THEN InvalidPermissions
        ELSE IF Contains(error_msg, "sign") THEN SigningFailed(error_msg)
        ELSE ConnectionFailed(error_msg)

FromJsValue(js) ==
    LET error_msg == IF js.isString THEN js.text ELSE DebugFmt(js)
        lower == ToLowercase(error_msg)
    IN  IF Contains(lower, "not installed") \/ Contains(lower, "undefined")
        THEN NotInstalled
        ELSE IF Contains(lower, "denied") \/ Contains(lower, "rejected")
        THEN UserDenied
        ELSE IF Contains(lower, "network") THEN NetworkError(error_msg)
        ELSE IF Contains(lower, "permission") THEN InvalidPermissions
        ELSE IF Contains(lower, "sign") THEN SigningFailed(error_msg)
        ELSE ConnectionFailed(error_msg)

-----------------------------------------------------------------------------
(* The browser globals the probes read *)

\* arweaveWallet: window.arweaveWallet is injected (wander.rs:35-36)
\* WalletClient:  window.WalletClient is undefined, a constructible class, or
\*                a value whose constructor throws (beacon.rs:16-20, 163)
EnvStates == [arweaveWallet : BOOLEAN,
              WalletClient : {"undefined", "defined", "broken"}]

-----------------------------------------------------------------------------
(* Strategy objects: one record per Box<dyn WalletStrategy> *)

WanderStrategyNew == [impl |-> "Wander"]
BeaconStrategyNew ==
    [impl |-> "Beacon", wallet_client |-> FALSE, connected |-> FALSE,
     address |-> NoneV]
WalletKitStrategyNew == [impl |-> "WalletKit"]
WebWalletStrategyNew == [impl |-> "WebWallet"]

\* Any other implementation of the trait: its kind and what its probe returns.
ProbeResults == {"OkTrue", "OkFalse", "Err"}
DynStrategy(k, r) == [impl |-> "Dyn", kind |-> k, probe |-> r]

strategy_type(obj) == IF obj.impl = "Dyn" THEN obj.kind ELSE obj.impl

get_capabilities(obj) ==
    CASE obj.impl = "Wander" -> WanderCapabilities
      [] obj.impl = "Beacon" -> BeaconCapabilities
      [] obj.impl = "WalletKit" -> WalletKitCapabilities
      [] obj.impl = "WebWallet" -> WebWalletCapabilities

is_wallet_available(e) == e.arweaveWallet

\* The probe script defines a mock WalletClient when none exists, then tries
\* the constructor: the result, and the globals it leaves behind.
is_beacon_available(e) ==
    LET after == IF e.WalletClient = "undefined"
                 THEN [e EXCEPT !.WalletClient = "defined"]
                 ELSE e
    IN  [res |-> after.WalletClient = "defined", env |-> after]

is_available(obj, e) ==
    CASE obj.impl = "Wander" ->
            [res |-> IF is_wallet_available(e) THEN "OkTrue" ELSE "OkFalse",
             env |-> e]
      [] obj.impl = "Beacon" ->
            LET r == is_beacon_available(e)
            IN  [res |-> IF r.res THEN "OkTrue" ELSE "OkFalse", env |-> r.env]
      [] obj.impl = "WalletKit" -> [res |-> "OkFalse", env |-> e]
      [] obj.impl = "WebWallet" -> [res |-> "OkTrue", env |-> e]
      [] OTHER -> [res |-> obj.probe, env |-> e]

-----------------------------------------------------------------------------
(* WalletStrategyManager *)

ManagerNew == [strategies |-> [k \in {} |-> {}], current_strategy |-> NoneV]

register_strategy(m, obj) ==
    LET t == strategy_type(obj)
    IN  [m EXCEPT !.strategies =
            [k \in (DOMAIN m.strategies) \cup {t} |->
                IF k = t THEN obj ELSE m.strategies[k]]]

\* The orders in which a HashMap over the keys S may be iterated
IterationOrders(S) ==
    {f \in [1..Cardinality(S) -> S] : \A i, j \in DOMAIN f : f[i] = f[j] => i = j}

\* One step of the loop of get_available_strategies: probe order[i], push the
\* kind on Ok(true), skip it on Ok(false) and on Err.
RECURSIVE ProbeLoop(_, _, _, _, _)
ProbeLoop(m, order, i, available, e) ==
    IF i > Len(order) THEN [available |-> available, env |-> e]
    ELSE LET r == is_available(m.strategies[order[i]], e)
         IN  ProbeLoop(m, order, i + 1,
                       IF r.res = "OkTrue" THEN Append(available, order[i])
                       ELSE available,
                       r.env)

\* a discovery that gives up, with nothing found, as soon as one probe fails
get_available_strategies_FailFast(m, order, e) ==
    LET r == ProbeLoop(m, order, 1, << >>, e)
    IN  IF \E i \in DOMAIN order : is_available(m.strategies[order[i]], e).res = "Err"
        THEN [available |-> << >>, env |-> r.env]
        ELSE r

get_available_strategies(m, order, e) == ProbeLoop(m, order, 1, << >>, e)

SeqContains(q, x) == \E i \in DOMAIN q : q[i] = x

\* a set_strategy that selects the kind although it reports it as unregistered
set_strategy_SelectsUnregistered(m, strategy_type_) ==
    [res |-> IF strategy_type_ \in DOMAIN m.strategies THEN Ok(Unit)
             ELSE Err(ConnectionFailed("Strategy " \o strategy_type_ \o " not registered")),
     mgr |-> [m EXCEPT !.current_strategy = Some(strategy_type_)]]

set_strategy(m, strategy_type_) ==
    IF strategy_type_ \in DOMAIN m.strategies
    THEN [res |-> Ok(Unit),
          mgr |-> [m EXCEPT !.current_strategy = Some(strategy_type_)]]
    ELSE [res |-> Err(ConnectionFailed("Strategy " \o strategy_type_ \o " not registered")),
          mgr |-> m]

get_current_strategy(m) ==
    IF m.current_strategy.some /\ m.current_strategy.val \in DOMAIN m.strategies
    THEN Some(m.strategies[m.current_strategy.val])
    ELSE NoneV

\* with_current_strategy_mut up to the call of the closure: the strategy the
\* closure is given, or the error (strategy.rs:213-221)
with_current_strategy_mut(m) ==
    IF ~m.current_strategy.some THEN Err(NotInstalled)
    ELSE IF m.current_strategy.val \notin DOMAIN m.strategies THEN Err(NotInstalled)
    ELSE Ok(m.strategies[m.current_strategy.val])

preferred_order == <<"Wander", "Beacon", "WalletKit", "WebWallet">>

\* an auto-selection that takes the first available kind in iteration order
auto_select_strategy_FirstAvailable(m, order, e) ==
    LET probed == get_available_strategies(m, order, e)
    IN  IF Len(probed.available) = 0
        THEN [res |-> Err(NotInstalled), mgr |-> m, env |-> probed.env]
        ELSE LET r == set_strategy(m, probed.available[1])
             IN  [res |-> IF r.res.ok THEN Ok(probed.available[1]) ELSE r.res,
                  mgr |-> r.mgr, env |-> probed.env]

\* an auto-selection that deselects the current strategy when it finds none
auto_select_strategy_ClearsOnFail(m, order, e) ==
    LET probed == get_available_strategies(m, order, e)
    IN  IF Len(probed.available) = 0
        THEN [res |-> Err(NotInstalled),
              mgr |-> [m EXCEPT !.current_strategy = NoneV], env |-> probed.env]
        ELSE LET r == set_strategy(m, probed.available[1])
             IN  [res |-> IF r.res.ok THEN Ok(probed.available[1]) ELSE r.res,
                  mgr |-> r.mgr, env |-> probed.env]

auto_select_strategy(m, order, e) ==
    LET probed == get_available_strategies(m, order, e)
        available == probed.available
        hits == {i \in DOMAIN preferred_order :
                    SeqContains(available, preferred_order[i])}
        chosen == IF hits # {}
                  THEN preferred_order[CHOOSE i \in hits : \A j \in hits : i <= j]
                  ELSE available[1]
    IN  IF Len(available) = 0
        THEN [res |-> Err(NotInstalled), mgr |-> m, env |-> probed.env]
        ELSE LET r == set_strategy(m, chosen)
             IN  [res |-> IF r.res.ok THEN Ok(chosen) ELSE r.res,
                  mgr |-> r.mgr, env |-> probed.env]

-----------------------------------------------------------------------------
(* What the providers may answer *)

\* addresses a provider may hand out; a provider may also answer ""
AddressNames == <<"addrX", "addrY", "addrZ", "addrW">>
Addresses == {AddressNames[i] : i \in 1..NumAddresses}
AddressStrings == Addresses \cup {""}

\* values a provider promise may reject with
JsErrors == {JsString("User rejected"), JsObject("Error: timeout")}

\* window.arweaveWallet.<f>() when window.arweaveWallet is undefined
UndefinedCall(f) ==
    JsObject("TypeError: undefined has no " \o f)

\* WalletError::from on every value the providers throw, computed once
WalletErrorFrom ==
    [js \in JsErrors \cup {UndefinedCall("disconnect"), UndefinedCall("sign"),
                           UndefinedCall("getActiveAddress")} |->
        FromJsValue(js)]

\* the resolutions of WalletClient.connect(options): a string, an object with
\* a string address, an object without one, or a value Reflect::get rejects
BeaconConnectResponses ==
    [shape : {"string", "object"}, address : AddressStrings]
        \cup {[shape |-> "no_address"], [shape |-> "not_object"]}

ProviderResults(values) ==
    {Ok(v) : v \in values} \cup {Err(j) : j \in JsErrors}

-----------------------------------------------------------------------------
(* WalletState / ExtendedWalletState *)

WalletStateDefault ==
    [connected |-> FALSE, address |-> NoneV, permissions |-> << >>,
     error |-> NoneV, connecting |-> FALSE, available |-> FALSE]

ExtendedWalletStateDefault ==
    [base_state |-> WalletStateDefault, strategy |-> "Wander",
     capabilities |-> DefaultCapabilities, available_strategies |-> << >>]

RequestedPermissions == <<"ACCESS_ADDRESS", "SIGN_TRANSACTION", "ACCESS_PUBLIC_KEY">>

-----------------------------------------------------------------------------
(* WalletService: the writes each operation makes to the global state *)

WalletServiceNew ==
    register_strategy(register_strategy(ManagerNew, WanderStrategyNew),
                      BeaconStrategyNew)

\* connect, before the strategy is called (mod.rs:198-199)
ConnectBegin(st) ==
    [st EXCEPT !.base_state.connecting = TRUE, !.base_state.error = NoneV]

\* an Ok arm that forgets to reset connecting
ConnectOkArm_KeepsConnecting(st, address) ==
    [st EXCEPT !.base_state.connected = TRUE,
               !.base_state.address = Some(address),
               !.base_state.permissions = RequestedPermissions]

\* an Ok arm that keeps the address of a session that is already connected
ConnectOkArm_FirstWins(st, address) ==
    IF st.base_state.connected
    THEN [st EXCEPT !.base_state.connecting = FALSE]
    ELSE [st EXCEPT !.base_state.connected = TRUE,
                    !.base_state.address = Some(address),
                    !.base_state.permissions = RequestedPermissions,
                    !.base_state.connecting = FALSE]

\* an Ok arm that leaves the permissions list as it was
ConnectOkArm_KeepsPermissions(st, address) ==
    [st EXCEPT !.base_state.connected = TRUE,
               !.base_state.address = Some(address),
               !.base_state.connecting = FALSE]

\* connect, Ok arm (mod.rs:211-217)
ConnectOkArm(st, address) ==
    [st EXCEPT !.base_state.connected = TRUE,
               !.base_state.address = Some(address),
               !.base_state.permissions = RequestedPermissions,
               !.base_state.connecting = FALSE]

\* connect, Err arm (mod.rs:218-222)
ConnectErrArm(st, e) ==
    [st EXCEPT !.base_state.connecting = FALSE,
               !.base_state.error = Some(Display(e))]

ConnectArm(st, result) ==
    IF result.ok THEN ConnectOkArm(st, result.val)
    ELSE ConnectErrArm(st, result.err)

\* disconnect, before the strategy is called (mod.rs:227-229): no write
DisconnectBegin(st) == st

\* an Ok arm that forgets to drop the address
DisconnectOkArm_KeepsAddress(st) ==
    [st EXCEPT !.base_state.connected = FALSE,
               !.base_state.permissions = << >>,
               !.base_state.error = NoneV]

\* disconnect, Ok arm (mod.rs:237-243)
DisconnectOkArm(st) ==
    [st EXCEPT !.base_state.connected = FALSE,
               !.base_state.address = NoneV,
               !.base_state.permissions = << >>,
               !.base_state.error = NoneV]

\* an Err arm that also drops the session
DisconnectErrArm_DropsSession(st, e) ==
    [DisconnectOkArm(st) EXCEPT !.base_state.error = Some(Display(e))]

\* disconnect, Err arm (mod.rs:244-247)
DisconnectErrArm(st, e) ==
    [st EXCEPT !.base_state.error = Some(Display(e))]

DisconnectArm(st, result) ==
    IF result.ok THEN DisconnectOkArm(st) ELSE DisconnectErrArm(st, result.err)

\* a set_strategy that records the kind but not its capabilities
SetStrategyWrites_NoCapabilities(st, m, strategy_type_) ==
    [st EXCEPT !.strategy = strategy_type_]

\* a set_strategy that first resets the session as a disconnect would
SetStrategyWrites_ResetsSession(st, m, strategy_type_) ==
    LET st1 == [DisconnectOkArm(st) EXCEPT !.strategy = strategy_type_]
        cur == get_current_strategy(m)
    IN  IF cur.some
        THEN [st1 EXCEPT !.capabilities = get_capabilities(cur.val)]
        ELSE st1

\* set_strategy after the manager accepted the kind (mod.rs:183-189)
SetStrategyWrites(st, m, strategy_type_) ==
    LET st1 == [st EXCEPT !.strategy = strategy_type_]
        cur == get_current_strategy(m)
    IN  IF cur.some
        THEN [st1 EXCEPT !.capabilities = get_capabilities(cur.val)]
        ELSE st1

-----------------------------------------------------------------------------
(* The strategies' connect / disconnect after the provider answered *)

\* WanderStrategy::get_active_address on the answer of getActiveAddress()
WanderAddressResult(r) ==
    IF r.ok
    THEN IF r.val = "" THEN Err(ConnectionFailed("No active address found"))
         ELSE Ok(r.val)
    ELSE Err(WalletErrorFrom[r.err])

\* BeaconStrategy::connect on the answer of connect_js: the result and
\* the strategy's own fields (beacon.rs:230-256)
BeaconConnectResult(obj, r) ==
    IF r.ok
    THEN IF r.val.shape \in {"string", "object"}
         THEN [res |-> Ok(r.val.address),
               obj |-> [obj EXCEPT !.connected = TRUE,
                                   !.address = Some(r.val.address)]]
         ELSE IF r.val.shape = "no_address"
         THEN [res |-> Err(ConnectionFailed("Invalid connection response")),
               obj |-> obj]
         ELSE [res |-> Err(ConnectionFailed("No address in connection response")),
               obj |-> obj]
    ELSE [res |-> Err(ConnectionFailed("Beacon connection failed: " \o DebugFmt(r.err))),
          obj |-> obj]

\* a disconnect that clears the flag but keeps the address
BeaconDisconnectResult_KeepsAddress(obj, r) ==
    IF r.ok
    THEN [res |-> Ok(Unit), obj |-> [obj EXCEPT !.connected = FALSE]]
    ELSE [res |-> Err(ConnectionFailed("Beacon disconnect failed: " \o DebugFmt(r.err))),
          obj |-> obj]

\* BeaconStrategy::disconnect on the answer of disconnect_js (beacon.rs:266-276)
BeaconDisconnectResult(obj, r) ==
    IF r.ok
    THEN [res |-> Ok(Unit),
          obj |-> [obj EXCEPT !.connected = FALSE, !.address = NoneV]]
    ELSE [res |-> Err(ConnectionFailed("Beacon disconnect failed: " \o DebugFmt(r.err))),
          obj |-> obj]

\* WanderStrategy::disconnect on the answer of disconnect() (wander.rs:99-109)
WanderDisconnectResult(r) ==
    IF r.ok THEN Ok(Unit) ELSE Err(WalletErrorFrom[r.err])

-----------------------------------------------------------------------------
(* WalletService: what a call does up to its first provider await *)

SetObj(m, obj) == [m EXCEPT !.strategies[strategy_type(obj)] = obj]

ConnectPcs == {"wander_connect", "wander_address", "beacon_connect"}
DisconnectPcs == {"wander_disconnect", "beacon_disconnect"}

NotImplemented(obj) == strategy_type(obj) \o " integration not implemented"

\* <dyn WalletStrategy>::connect up to the provider call: either it returns
\* at once (next = "idle", with its result), or it suspends on the provider
\* promise, or the WalletClient constructor throws (wander.rs:74-84,
\* beacon.rs:200-229, wallet_kit.rs:56-67, web_wallet.rs:66-77)
StrategyConnect(obj, e) ==
    IF obj.impl = "Wander"
    THEN IF ~is_wallet_available(e)
         THEN [next |-> "idle", res |-> Err(NotInstalled), obj |-> obj]
         ELSE [next |-> "wander_connect", res |-> Ok(Unit), obj |-> obj]
    ELSE IF obj.impl = "Beacon"
    THEN IF ~obj.wallet_client /\ e.WalletClient # "defined"
         THEN [next |-> "aborted", res |-> Ok(Unit), obj |-> obj]
         ELSE [next |-> "beacon_connect", res |-> Ok(Unit),
               obj |-> [obj EXCEPT !.wallet_client = TRUE]]
    ELSE [next |-> "idle", res |-> Err(ConnectionFailed(NotImplemented(obj))),
          obj |-> obj]

\* <dyn WalletStrategy>::disconnect up to the provider call (wander.rs:98-99,
\* beacon.rs:262-265, 277-279, wallet_kit.rs:69-73, web_wallet.rs:79-86)
StrategyDisconnect(obj, e) ==
    IF obj.impl = "Wander"
    THEN IF ~is_wallet_available(e)
         THEN [next |-> "idle",
               res |-> Err(WalletErrorFrom[UndefinedCall("disconnect")])]
         ELSE [next |-> "wander_disconnect", res |-> Ok(Unit)]
    ELSE IF obj.impl = "Beacon"
    THEN IF ~obj.wallet_client
         THEN [next |-> "idle", res |-> Ok(Unit)]
         ELSE [next |-> "beacon_disconnect", res |-> Ok(Unit)]
    ELSE [next |-> "idle", res |-> Err(ConnectionFailed(NotImplemented(obj)))]

\* a connect that falls back to Wander when no strategy is selected
ConnectDispatch_FallsBackToWander(m, e) ==
    LET cur == get_current_strategy(m)
        d == StrategyConnect(IF cur.some THEN cur.val ELSE m.strategies["Wander"], e)
    IN  [next |-> d.next, res |-> d.res, mgr |-> SetObj(m, d.obj)]

\* with_current_strategy_mut(strategy.connect) up to the provider call
\* (strategy.rs:213-221, mod.rs:204-208)
ConnectDispatch(m, e) ==
    LET cur == get_current_strategy(m)
    IN  IF ~cur.some
        THEN [next |-> "idle", res |-> Err(NotInstalled), mgr |-> m]
        ELSE LET d == StrategyConnect(cur.val, e)
             IN  [next |-> d.next, res |-> d.res, mgr |-> SetObj(m, d.obj)]

\* with_current_strategy_mut(strategy.disconnect) up to the provider call
\* (strategy.rs:213-221, mod.rs:230-234)
DisconnectDispatch(m, e) ==
    LET cur == get_current_strategy(m)
    IN  IF ~cur.some
        THEN [next |-> "idle", res |-> Err(NotInstalled)]
        ELSE StrategyDisconnect(cur.val, e)

\* the record of a step: the service, the call, how far it got, its result
Called(s, op) ==
    [svc |-> s, op |-> op, step |-> "call", res |-> Ok(Unit), overtaken |-> FALSE]
Resumed(s, op) ==
    [svc |-> s, op |-> op, step |-> "resume", res |-> Ok(Unit), overtaken |-> FALSE]
Returned(s, op, res) ==
    [svc |-> s, op |-> op, step |-> "return", res |-> res, overtaken |-> FALSE]

-----------------------------------------------------------------------------
(* Actions of the services *)

\* The race observer. It is off unless a specification starts it at RaceNone;
\* it then follows a disconnect that reaches its provider while a connect of
\* another service is in flight, until one of the two fails or the next
\* operation begins.
RaceOff == [stage |-> "off"]
RaceNone == [stage |-> "none"]
Racing(c, d) == [stage |-> "racing", conn |-> c, disc |-> d, settled |-> {}]

BothSettled == race.stage = "racing" /\ race.settled = {"connect", "disconnect"}

\* the observer after service s began an operation: a race is followed only
\* while no further operation begins
RaceOnCall(s, op, reachedProvider) ==
    IF race.stage = "off" THEN race
    ELSE IF race.stage = "none" /\ op = "disconnect" /\ reachedProvider
            /\ \E t \in Services \ {s} : pc[t] \in ConnectPcs
    THEN Racing(CHOOSE t \in Services \ {s} : pc[t] \in ConnectPcs, s)
    ELSE RaceNone

\* the observer after the connect or disconnect of s returned result
RaceOnReturn(s, op, result) ==
    IF race.stage # "racing" THEN race
    ELSE IF (op = "connect" /\ s = race.conn) \/ (op = "disconnect" /\ s = race.disc)
    THEN IF result.ok THEN [race EXCEPT !.settled = @ \cup {op}] ELSE RaceNone
    ELSE race

\* WalletService::new() in a UI callback: a fresh service replaces an idle one
NewService(s) ==
    /\ pc[s] = "idle"
    /\ manager[s] # WalletServiceNew
    /\ manager' = [manager EXCEPT ![s] = WalletServiceNew]
    /\ overtaken' = [overtaken EXCEPT ![s] = FALSE]
    /\ last' = Returned(s, "new", Ok(Unit))
    /\ race' = RaceOnCall(s, "new", FALSE)
    /\ UNCHANGED <<ext, env, pc, envChanges, mgrVars, storage, ui>>

\* WalletService::set_strategy (no await inside)
SetStrategy(s, k) ==
    /\ pc[s] = "idle"
    /\ LET r == set_strategy(manager[s], k)
       IN  /\ manager' = [manager EXCEPT ![s] = r.mgr]
           /\ ext' = IF r.res.ok THEN SetStrategyWrites(ext, r.mgr, k) ELSE ext
           /\ last' = Returned(s, "set_strategy",
                               IF r.res.ok THEN Ok(k) ELSE r.res)
    /\ race' = RaceOnCall(s, "set_strategy", FALSE)
    /\ UNCHANGED <<env, pc, overtaken, envChanges, mgrVars, storage, ui>>

\* a connect of s returned: it is no longer in flight, and if it returned Ok
\* every connect still in flight is overtaken
Overtake(s, result) ==
    [t \in Services |->
        IF t = s THEN FALSE
        ELSE overtaken[t] \/ (result.ok /\ pc[t] \in ConnectPcs)]

\* WalletService::connect up to the provider call
ConnectStart(s) ==
    /\ pc[s] = "idle"
    /\ LET d == ConnectDispatch(manager[s], env)
           st1 == ConnectBegin(ext)
       IN  /\ manager' = [manager EXCEPT ![s] = d.mgr]
           /\ pc' = [pc EXCEPT ![s] = d.next]
           /\ IF d.next = "idle"
              THEN /\ ext' = ConnectArm(st1, d.res)
                   /\ last' = Returned(s, "connect", d.res)
              ELSE /\ ext' = st1
                   /\ last' = Called(s, "connect")
    /\ overtaken' = [overtaken EXCEPT ![s] = FALSE]
    /\ race' = RaceOnCall(s, "connect", FALSE)
    /\ UNCHANGED <<env, envChanges, mgrVars, storage, ui>>

ConnectReturn(s, result, m) ==
    /\ ext' = ConnectArm(ext, result)
    /\ manager' = [manager EXCEPT ![s] = m]
    /\ pc' = [pc EXCEPT ![s] = "idle"]
    /\ overtaken' = Overtake(s, result)
    /\ last' = [Returned(s, "connect", result) EXCEPT !.overtaken = overtaken[s]]
    /\ race' = RaceOnReturn(s, "connect", result)
    /\ UNCHANGED <<env, envChanges, mgrVars, storage, ui>>

\* window.arweaveWallet.connect(permissions) settles (wander.rs:85-95)
WanderConnectResolve(s, r) ==
    /\ pc[s] = "wander_connect"
    /\ IF r.ok
       THEN /\ pc' = [pc EXCEPT ![s] = "wander_address"]
            /\ last' = Resumed(s, "connect")
            /\ UNCHANGED <<ext, env, manager, overtaken, envChanges, mgrVars, hookVars>>
       ELSE ConnectReturn(s, Err(WalletErrorFrom[r.err]), manager[s])

\* window.arweaveWallet.getActiveAddress() settles (wander.rs:88, 112-124)
WanderAddressResolve(s, r) ==
    /\ pc[s] = "wander_address"
    /\ ConnectReturn(s, WanderAddressResult(r), manager[s])

\* WalletClient.connect(options) settles (beacon.rs:230-256)
BeaconConnectResolve(s, r) ==
    /\ pc[s] = "beacon_connect"
    /\ LET b == BeaconConnectResult(manager[s].strategies["Beacon"], r)
       IN  ConnectReturn(s, b.res, SetObj(manager[s], b.obj))

\* WalletService::disconnect up to the provider call
DisconnectStart(s) ==
    /\ pc[s] = "idle"
    /\ LET d == DisconnectDispatch(manager[s], env)
           st1 == DisconnectBegin(ext)
       IN  /\ pc' = [pc EXCEPT ![s] = d.next]
           /\ IF d.next = "idle"
              THEN /\ ext' = DisconnectArm(st1, d.res)
                   /\ last' = Returned(s, "disconnect", d.res)
              ELSE /\ ext' = st1
                   /\ last' = Called(s, "disconnect")
           /\ race' = RaceOnCall(s, "disconnect", d.next # "idle")
    /\ UNCHANGED <<env, manager, overtaken, envChanges, mgrVars, storage, ui>>

DisconnectReturn(s, result, m) ==
    /\ ext' = DisconnectArm(ext, result)
    /\ manager' = [manager EXCEPT ![s] = m]
    /\ pc' = [pc EXCEPT ![s] = "idle"]
    /\ last' = Returned(s, "disconnect", result)
    /\ race' = RaceOnReturn(s, "disconnect", result)
    /\ UNCHANGED <<env, overtaken, envChanges, mgrVars, storage, ui>>

\* window.arweaveWallet.disconnect() settles (wander.rs:99-109)
WanderDisconnectResolve(s, r) ==
    /\ pc[s] = "wander_disconnect"
    /\ DisconnectReturn(s, WanderDisconnectResult(r), manager[s])

\* WalletClient.disconnect() settles (beacon.rs:266-276)
BeaconDisconnectResolve(s, r) ==
    /\ pc[s] = "beacon_disconnect"
    /\ LET b == BeaconDisconnectResult(manager[s].strategies["Beacon"], r)
       IN  DisconnectReturn(s, b.res, SetObj(manager[s], b.obj))

\* <dyn WalletStrategy>::sign_transaction on the provider's answer r
\* (wander.rs:137-156, beacon.rs:303-329, wallet_kit.rs, web_wallet.rs)
StrategySign(obj, e, r) ==
    IF obj.impl = "Wander"
    THEN IF ~is_wallet_available(e) THEN Err(WalletErrorFrom[UndefinedCall("sign")])
         ELSE IF r.ok
         THEN IF r.val = "map" THEN Ok("signed")
              ELSE Err(SigningFailed("Deserialization error: invalid type"))
         ELSE Err(WalletErrorFrom[r.err])
    ELSE IF obj.impl = "Beacon"
    THEN IF ~obj.wallet_client THEN Err(SigningFailed("Beacon not initialized"))
         ELSE IF ~obj.connected THEN Err(SigningFailed("Beacon not connected"))
         ELSE IF r.ok
         THEN IF r.val = "map" THEN Ok("signed")
              ELSE Err(SigningFailed("Failed to parse signed transaction: invalid type"))
         ELSE Err(SigningFailed("Beacon transaction signing failed: " \o DebugFmt(r.err)))
    ELSE Err(SigningFailed(NotImplemented(obj)))

\* <dyn WalletStrategy>::get_active_address on the provider's answer r
\* (wander.rs:112-124, beacon.rs:282-288, wallet_kit.rs:75-78,
\* web_wallet.rs:88-91)
StrategyGetActiveAddress(obj, e, r) ==
    IF obj.impl = "Wander"
    THEN IF ~is_wallet_available(e)
         THEN Err(WalletErrorFrom[UndefinedCall("getActiveAddress")])
         ELSE WanderAddressResult(r)
    ELSE IF obj.impl = "Beacon"
    THEN IF obj.address.some THEN Ok(obj.address.val)
         ELSE Err(ConnectionFailed("Beacon not connected"))
    ELSE Err(ConnectionFailed(NotImplemented(obj)))

\* a check_connection of Wander that hands on the failure of the address query
StrategyCheckConnection_PropagatesErrors(obj, e, r) ==
    IF obj.impl = "Wander"
    THEN IF ~is_wallet_available(e) THEN Ok(FALSE)
         ELSE IF WanderAddressResult(r).ok THEN Ok(TRUE) ELSE WanderAddressResult(r)
    ELSE IF obj.impl = "Beacon" THEN Ok(obj.connected)
    ELSE Ok(FALSE)

\* <dyn WalletStrategy>::check_connection; r answers Wander's
\* getActiveAddress() (wander.rs:158-168, beacon.rs:331-333,
\* wallet_kit.rs:96-99, web_wallet.rs:111-116)
StrategyCheckConnection(obj, e, r) ==
    IF obj.impl = "Wander"
    THEN IF ~is_wallet_available(e) THEN Ok(FALSE)
         ELSE IF WanderAddressResult(r).ok THEN Ok(TRUE) ELSE Ok(FALSE)
    ELSE IF obj.impl = "Beacon" THEN Ok(obj.connected)
    ELSE Ok(FALSE)

\* WalletService::check_connection (mod.rs:270-276)
CheckConnectionResult(m, e, r) ==
    LET cur == get_current_strategy(m)
    IN  IF ~cur.some THEN Ok(FALSE)
        ELSE StrategyCheckConnection(cur.val, e, r)

\* a sign_transaction that reports every strategy failure as SigningFailed
SignResult_RewrapsErrors(m, e, r) ==
    LET cur == get_current_strategy(m)
        res == StrategySign(cur.val, e, r)
    IN  IF ~cur.some THEN Err(NotInstalled)
        ELSE IF res.ok THEN res ELSE Err(SigningFailed(Display(res.err)))

\* WalletService::sign_transaction on the provider's answer r; it writes
\* nothing to the global state (mod.rs:261-267)
SignResult(m, e, r) ==
    LET cur == get_current_strategy(m)
    IN  IF ~cur.some THEN Err(NotInstalled)
        ELSE StrategySign(cur.val, e, r)

\* a read-style operation that mirrors its failure into the session state
ReadOnly_MirrorsError(st, res) ==
    IF res.ok THEN st ELSE [st EXCEPT !.base_state.error = Some(Display(res.err))]

\* the global state after get_available_strategies, get_active_address,
\* sign_transaction or check_connection returned res: none of them writes
\* it (mod.rs:175-177, 252-276)
ReadOnly(st, res) == st

SignTransaction(s, r) ==
    /\ pc[s] = "idle"
    /\ LET res == SignResult(manager[s], env, r)
       IN  /\ last' = [answer |-> r] @@ Returned(s, "sign_transaction", res)
           /\ ext' = ReadOnly(ext, res)
    /\ UNCHANGED <<env, manager, pc, overtaken, envChanges, mgrVars, hookVars>>

CheckConnection(s, r) ==
    /\ pc[s] = "idle"
    /\ LET res == CheckConnectionResult(manager[s], env, r)
       IN  /\ last' = [answer |-> r] @@ Returned(s, "check_connection", res)
           /\ ext' = ReadOnly(ext, res)
    /\ UNCHANGED <<env, manager, pc, overtaken, envChanges, mgrVars, hookVars>>

\* WalletService::get_active_address on the provider's answer r
\* (mod.rs:252-258)
GetActiveAddressResult(m, e, r) ==
    LET cur == get_current_strategy(m)
    IN  IF ~cur.some THEN Err(NotInstalled)
        ELSE StrategyGetActiveAddress(cur.val, e, r)

GetActiveAddress(s, r) ==
    /\ pc[s] = "idle"
    /\ LET res == GetActiveAddressResult(manager[s], env, r)
       IN  /\ last' = [answer |-> r] @@ Returned(s, "get_active_address", res)
           /\ ext' = ReadOnly(ext, res)
    /\ UNCHANGED <<env, manager, pc, overtaken, envChanges, mgrVars, hookVars>>

\* WalletService::get_available_strategies (mod.rs:175-177): the probes of
\* the manager's discovery, which may touch the browser globals
GetAvailableStrategies(s, order) ==
    /\ pc[s] = "idle"
    /\ LET probed == get_available_strategies(manager[s], order, env)
           res == Ok(probed.available)
       IN  /\ env' = probed.env
           /\ last' = Returned(s, "get_available_strategies", res)
           /\ ext' = ReadOnly(ext, res)
    /\ UNCHANGED <<manager, pc, overtaken, envChanges, mgrVars, hookVars>>

\* WalletService::init, first half: new(), discovery, and the branch taken
\* when nothing is available (mod.rs:143-154, 165-169)
InitDiscover(s, order) ==
    /\ pc[s] = "idle"
    /\ LET probed == get_available_strategies(WalletServiceNew, order, env)
           st1 == [ext EXCEPT !.available_strategies = probed.available]
       IN  /\ env' = probed.env
           /\ IF Len(probed.available) # 0
              THEN /\ ext' = st1
                   /\ pc' = [pc EXCEPT ![s] = "init_select"]
                   /\ last' = Called(s, "init")
              ELSE /\ ext' = [st1 EXCEPT
                                !.base_state.available = FALSE,
                                !.base_state.error = Some("No wallet strategies available")]
                   /\ pc' = pc
                   /\ last' = Returned(s, "init", Err(NotInstalled))
    /\ manager' = [manager EXCEPT ![s] = WalletServiceNew]
    /\ overtaken' = [overtaken EXCEPT ![s] = FALSE]
    /\ UNCHANGED <<envChanges, mgrVars, hookVars>>

\* init that records the selected kind but not its capabilities
InitSelectWrites_NoCapabilities(st, m, selected_strategy) ==
    [st EXCEPT !.strategy = selected_strategy, !.base_state.available = TRUE]

\* the writes of init after auto-selection succeeded (mod.rs:156-163)
InitSelectWrites(st, m, selected_strategy) ==
    LET st1 == [st EXCEPT !.strategy = selected_strategy,
                          !.base_state.available = TRUE]
        cur == get_current_strategy(m)
    IN  IF cur.some
        THEN [st1 EXCEPT !.capabilities = get_capabilities(cur.val)]
        ELSE st1

\* WalletService::init, second half: auto-selection (mod.rs:155-164)
InitSelect(s, order) ==
    /\ pc[s] = "init_select"
    /\ LET r == auto_select_strategy(manager[s], order, env)
       IN  /\ env' = r.env
           /\ manager' = [manager EXCEPT ![s] = r.mgr]
           /\ ext' = IF r.res.ok THEN InitSelectWrites(ext, r.mgr, r.res.val) ELSE ext
           /\ last' = Returned(s, "init", r.res)
    /\ pc' = [pc EXCEPT ![s] = "idle"]
    /\ UNCHANGED <<overtaken, envChanges, mgrVars, hookVars>>

\* a script or extension changes the globals the probes read
EnvChange(e2) ==
    /\ envChanges < MaxEnvChanges
    /\ e2 # env
    /\ env' = e2
    /\ envChanges' = envChanges + 1
    /\ last' = Returned("browser", "env", Ok(Unit))
    /\ UNCHANGED <<ext, manager, pc, overtaken, mgrVars, hookVars>>

-----------------------------------------------------------------------------
(* Actions of the stand-alone manager *)

MgrRegister(obj) ==
    /\ mgr' = register_strategy(mgr, obj)
    /\ mgrRet' = [op |-> "register_strategy"]
    /\ UNCHANGED <<svcVars, hookVars>>

MgrGetAvailable(order) ==
    /\ LET r == get_available_strategies(mgr, order, env)
       IN  /\ mgrRet' = [op |-> "get_available_strategies", val |-> r.available]
           /\ env' = r.env
    /\ UNCHANGED <<mgr, ext, manager, pc, overtaken, last, envChanges, hookVars>>

MgrSetStrategy(k) ==
    /\ LET r == set_strategy(mgr, k)
       IN  /\ mgr' = r.mgr
           /\ mgrRet' = [op |-> "set_strategy", arg |-> k, res |-> r.res,
                         before |-> mgr.current_strategy]
    /\ UNCHANGED <<svcVars, hookVars>>

MgrAutoSelect(order) ==
    /\ LET r == auto_select_strategy(mgr, order, env)
       IN  /\ mgr' = r.mgr
           /\ mgrRet' = [op |-> "auto_select_strategy", res |-> r.res,
                         before |-> mgr.current_strategy]
           /\ env' = r.env
    /\ UNCHANGED <<ext, manager, pc, overtaken, last, envChanges, hookVars>>

-----------------------------------------------------------------------------
(* The reconnect hook and the WalletProvider callbacks it calls *)

\* the service held by the WalletProvider context (context.rs:86)
AppService == "svcA"

\* impl Display for WalletStrategyType (wallet_connect.rs:536-546), used by
\* hooks.rs:77
StrategyToString(k) ==
    CASE k = "Beacon" -> "Beacon"
      [] k = "Wander" -> "Wander"
      [] k = "WalletKit" -> "WalletKit"
      [] k = "WebWallet" -> "WebWallet"

\* a parser that accepts the names in lower case as well
StrategyFromStr_IgnoresCase(str) ==
    CASE str \in {"Beacon", "beacon"} -> Ok("Beacon")
      [] str \in {"Wander", "wander"} -> Ok("Wander")
      [] str \in {"WalletKit", "walletkit"} -> Ok("WalletKit")
      [] str \in {"WebWallet", "webwallet"} -> Ok("WebWallet")
      [] OTHER -> Err(Unit)

\* impl FromStr for WalletStrategyType (wallet_connect.rs:521-533), used by
\* hooks.rs:39
StrategyFromStr(str) ==
    CASE str = "Beacon" -> Ok("Beacon")
      [] str = "Wander" -> Ok("Wander")
      [] str = "WalletKit" -> Ok("WalletKit")
      [] str = "WebWallet" -> Ok("WebWallet")
      [] OTHER -> Err(Unit)

StorageEmpty == [connected |-> NoneV, strategy |-> NoneV]

\* what a previous session, or anything else writing localStorage, left
StorageStates ==
    [connected : {NoneV, Some("true")},
     strategy : {NoneV} \cup {Some(StrategyToString(k)) : k \in WalletStrategyType}
                  \cup {Some("ledger"), Some("wander"), Some("")}]

UiUnmounted == [reconnect |-> "unmounted", spawned |-> << >>, attempt |-> NoneV]

\* what the connect callback of WalletProvider returns to its caller, while
\* the task it spawned has not run yet (context.rs:123-137)
ConnectCallbackReturn == Ok("connecting")

Remove(q, i) == SubSeq(q, 1, i - 1) \o SubSeq(q, i + 1, Len(q))

\* use_wallet_reconnect, the effect run on mount (hooks.rs:31-58)
UseWalletReconnect ==
    /\ ui.reconnect = "unmounted"
    /\ LET parsed == IF storage.strategy.some
                     THEN StrategyFromStr(storage.strategy.val)
                     ELSE Err("None")
           t1 == IF parsed.ok
                 THEN << [op |-> "set_strategy", arg |-> parsed.val] >>
                 ELSE << >>
           t2 == IF storage.connected.some THEN << [op |-> "connect"] >> ELSE << >>
           r == ConnectCallbackReturn
       IN  /\ ui' = [ui EXCEPT !.reconnect = "ran", !.spawned = t1 \o t2]
           /\ storage' = IF storage.connected.some /\ ~r.ok
                          THEN [storage EXCEPT !.connected = NoneV]
                          ELSE storage
           /\ last' = Returned("ui", "use_wallet_reconnect",
                               IF storage.connected.some THEN r ELSE Ok(Unit))
    /\ UNCHANGED <<ext, env, manager, pc, overtaken, envChanges, mgrVars, race>>

\* the task spawned by the set_strategy callback: a temporary service, its
\* set_strategy, then the service is stored in the context (context.rs:162-168)
SetStrategyTask(i) ==
    /\ i \in DOMAIN ui.spawned
    /\ ui.spawned[i].op = "set_strategy"
    /\ LET k == ui.spawned[i].arg
           r == set_strategy(WalletServiceNew, k)
       IN  /\ manager' = [manager EXCEPT ![AppService] = r.mgr]
           /\ ext' = IF r.res.ok THEN SetStrategyWrites(ext, r.mgr, k) ELSE ext
           /\ last' = Returned(AppService, "set_strategy",
                               IF r.res.ok THEN Ok(k) ELSE r.res)
    /\ ui' = [ui EXCEPT !.spawned = Remove(ui.spawned, i)]
    /\ UNCHANGED <<env, pc, overtaken, envChanges, mgrVars, storage, race>>

\* the task spawned by the connect callback: a temporary service, its
\* connect, then the service is stored in the context (context.rs:128-134)
ConnectTask(i) ==
    /\ i \in DOMAIN ui.spawned
    /\ ui.spawned[i].op = "connect"
    /\ pc[AppService] = "idle"
    /\ LET d == ConnectDispatch(WalletServiceNew, env)
           st1 == ConnectBegin(ext)
       IN  /\ manager' = [manager EXCEPT ![AppService] = d.mgr]
           /\ pc' = [pc EXCEPT ![AppService] = d.next]
           /\ IF d.next = "idle"
              THEN /\ ext' = ConnectArm(st1, d.res)
                   /\ last' = Returned(AppService, "connect", d.res)
                   /\ ui' = [ui EXCEPT !.spawned = Remove(ui.spawned, i),
                                       !.attempt = Some(d.res)]
              ELSE /\ ext' = st1
                   /\ last' = Called(AppService, "connect")
                   /\ ui' = [ui EXCEPT !.spawned = Remove(ui.spawned, i)]
    /\ UNCHANGED <<env, overtaken, envChanges, mgrVars, storage, race>>

-----------------------------------------------------------------------------
(* Specifications *)

ServiceOrders == IterationOrders(DOMAIN WalletServiceNew.strategies)

InitCommon ==
    /\ ext = ExtendedWalletStateDefault
    /\ manager = [s \in Services |-> WalletServiceNew]
    /\ pc = [s \in Services |-> "idle"]
    /\ overtaken = [s \in Services |-> FALSE]
    /\ last = Returned("browser", "start", Ok(Unit))
    /\ envChanges = 0
    /\ mgr = ManagerNew
    /\ mgrRet = [op |-> "new"]
    /\ ui = UiUnmounted
    /\ race = RaceOff

Init == InitCommon /\ env \in EnvStates /\ storage = StorageEmpty

\* Services built by the UI callbacks run concurrently: every operation that
\* writes the shared session state, interleaved at the provider awaits.
Next ==
    \/ \E s \in Services : NewService(s)
    \/ \E s \in Services, k \in WalletStrategyType : SetStrategy(s, k)
    \/ \E s \in Services : ConnectStart(s)
    \/ \E s \in Services, r \in ProviderResults({Unit}) : WanderConnectResolve(s, r)
    \/ \E s \in Services, r \in ProviderResults(AddressStrings) : WanderAddressResolve(s, r)
    \/ \E s \in Services, r \in ProviderResults(BeaconConnectResponses) : BeaconConnectResolve(s, r)
    \/ \E s \in Services : DisconnectStart(s)
    \/ \E s \in Services, r \in ProviderResults({Unit}) : WanderDisconnectResolve(s, r)
    \/ \E s \in Services, r \in ProviderResults({Unit}) : BeaconDisconnectResolve(s, r)

Spec == Init /\ [][Next]_vars

\* The same services with the race observer started.
RaceInit ==
    /\ ext = ExtendedWalletStateDefault
    /\ manager = [s \in Services |-> WalletServiceNew]
    /\ pc = [s \in Services |-> "idle"]
    /\ overtaken = [s \in Services |-> FALSE]
    /\ last = Returned("browser", "start", Ok(Unit))
    /\ envChanges = 0
    /\ mgr = ManagerNew
    /\ mgrRet = [op |-> "new"]
    /\ ui = UiUnmounted
    /\ storage = StorageEmpty
    /\ env \in EnvStates
    /\ race = RaceNone

RaceSpec == RaceInit /\ [][Next]_vars

\* One service used call after call, from start-up on, while scripts and
\* extensions are still being injected: any sequence of its operations.

AppNext ==
    \/ \E k \in WalletStrategyType : SetStrategy(AppService, k)
    \/ ConnectStart(AppService)
    \/ \E r \in ProviderResults({Unit}) : WanderConnectResolve(AppService, r)
    \/ \E r \in ProviderResults(AddressStrings) : WanderAddressResolve(AppService, r)
    \/ \E r \in ProviderResults(BeaconConnectResponses) : BeaconConnectResolve(AppService, r)
    \/ DisconnectStart(AppService)
    \/ \E r \in ProviderResults({Unit}) : WanderDisconnectResolve(AppService, r)
    \/ \E r \in ProviderResults({Unit}) : BeaconDisconnectResolve(AppService, r)
    \/ \E r \in ProviderResults({"map", "other"}) : SignTransaction(AppService, r)
    \/ \E r \in ProviderResults(AddressStrings) : CheckConnection(AppService, r)
    \/ \E r \in ProviderResults(AddressStrings) : GetActiveAddress(AppService, r)
    \/ \E order \in ServiceOrders : GetAvailableStrategies(AppService, order)
    \/ \E order \in ServiceOrders : InitDiscover(AppService, order)
    \/ \E order \in ServiceOrders : InitSelect(AppService, order)
    \/ \E e2 \in EnvStates : EnvChange(e2)

AppSpec == Init /\ [][AppNext]_vars

\* The stand-alone manager holds arbitrary implementations of the trait.
MgrInit ==
    /\ InitCommon
    /\ env = [arweaveWallet |-> FALSE, WalletClient |-> "undefined"]
    /\ storage = StorageEmpty

MgrNext ==
    \/ \E k \in WalletStrategyType, p \in ProbeResults : MgrRegister(DynStrategy(k, p))
    \/ \E order \in IterationOrders(DOMAIN mgr.strategies) : MgrGetAvailable(order)
    \/ \E k \in WalletStrategyType : MgrSetStrategy(k)
    \/ \E order \in IterationOrders(DOMAIN mgr.strategies) : MgrAutoSelect(order)

MgrSpec == MgrInit /\ [][MgrNext]_vars

\* The two callers of auto-selection side by side: WalletService::init, and a
\* manager of the four shipped strategies used without a service.
ShippedStrategies ==
    {WanderStrategyNew, BeaconStrategyNew, WalletKitStrategyNew, WebWalletStrategyNew}

SelectNext ==
    \/ \E obj \in ShippedStrategies : MgrRegister(obj)
    \/ \E order \in IterationOrders(DOMAIN mgr.strategies) : MgrAutoSelect(order)
    \/ \E order \in ServiceOrders : InitDiscover(AppService, order)
    \/ \E order \in ServiceOrders : InitSelect(AppService, order)
    \/ \E e2 \in EnvStates : EnvChange(e2)

SelectSpec == Init /\ [][SelectNext]_vars

\* The strategies called one at a time through with_strategy_mut on a manager
\* that no service owns; each call runs to its return on the answers the
\* provider gives.
with_strategy_mut(m, strategy_type_) ==
    IF strategy_type_ \in DOMAIN m.strategies
    THEN Ok(m.strategies[strategy_type_])
    ELSE Err(ConnectionFailed("Strategy " \o strategy_type_ \o " not found"))

\* the answers the provider gives to the calls a connect of kind k makes:
\* connect() and getActiveAddress() for Wander, connect(options) for Beacon
ConnectAnswers(k) ==
    CASE k = "Wander" ->
            ProviderResults({Unit}) \X ProviderResults(AddressStrings)
      [] k = "Beacon" -> {<<rb>> : rb \in ProviderResults(BeaconConnectResponses)}
      [] OTHER -> {<< >>}

\* what the provider raised when it answered r
Raised(r) == IF r.ok THEN NoneV ELSE Some(r.err)

\* connect of obj from call to return on the provider's answers
StrategyConnectSettled(obj, e, answers) ==
    LET d == StrategyConnect(obj, e)
    IN  CASE d.next = "idle" ->
                [res |-> d.res, obj |-> d.obj, thrown |-> FALSE, raised |-> NoneV]
          [] d.next = "wander_connect" ->
                [res |-> IF answers[1].ok THEN WanderAddressResult(answers[2])
                         ELSE Err(WalletErrorFrom[answers[1].err]),
                 obj |-> d.obj, thrown |-> FALSE,
                 raised |-> IF ~answers[1].ok THEN Some(answers[1].err)
                            ELSE Raised(answers[2])]
          [] d.next = "beacon_connect" ->
                [thrown |-> FALSE, raised |-> Raised(answers[1])]
                    @@ BeaconConnectResult(d.obj, answers[1])
          [] d.next = "aborted" ->
                [res |-> Ok(Unit), obj |-> obj, thrown |-> TRUE, raised |-> NoneV]

\* disconnect of obj from call to return on the provider's answer r
StrategyDisconnectSettled(obj, e, r) ==
    LET d == StrategyDisconnect(obj, e)
    IN  CASE d.next = "idle" -> [res |-> d.res, obj |-> obj, raised |-> NoneV]
          [] d.next = "wander_disconnect" ->
                [res |-> WanderDisconnectResult(r), obj |-> obj, raised |-> Raised(r)]
          [] d.next = "beacon_disconnect" ->
                [raised |-> Raised(r)] @@ BeaconDisconnectResult(obj, r)

\* sign_transaction of obj on the provider's answer r: the call reaches the
\* provider only past the strategy's own checks
StrategySignSettled(obj, e, r) ==
    [res |-> StrategySign(obj, e, r),
     raised |-> IF \/ obj.impl = "Wander" /\ is_wallet_available(e)
                   \/ obj.impl = "Beacon" /\ obj.wallet_client /\ obj.connected
                THEN Raised(r) ELSE NoneV]

StrategyCall(op, k, raised, res, m2) ==
    /\ mgrRet' = [op |-> op, kind |-> k, res |-> res, raised |-> raised,
                  before |-> IF k \in DOMAIN mgr.strategies
                             THEN Some(mgr.strategies[k]) ELSE NoneV]
    /\ mgr' = m2
    /\ UNCHANGED <<svcVars, hookVars>>

WithStrategyConnect(k, answers) ==
    LET found == with_strategy_mut(mgr, k)
    IN  IF ~found.ok THEN StrategyCall("connect", k, NoneV, found, mgr)
        ELSE LET c == StrategyConnectSettled(found.val, env, answers)
             IN  IF c.thrown THEN StrategyCall("connect_thrown", k, NoneV, Ok(Unit), mgr)
                 ELSE StrategyCall("connect", k, c.raised, c.res, SetObj(mgr, c.obj))

WithStrategyDisconnect(k, r) ==
    LET found == with_strategy_mut(mgr, k)
    IN  IF ~found.ok THEN StrategyCall("disconnect", k, NoneV, found, mgr)
        ELSE LET d == StrategyDisconnectSettled(found.val, env, r)
             IN  StrategyCall("disconnect", k, d.raised, d.res, SetObj(mgr, d.obj))

WithStrategySign(k, r) ==
    LET found == with_strategy_mut(mgr, k)
    IN  IF ~found.ok THEN StrategyCall("sign_transaction", k, NoneV, found, mgr)
        ELSE LET g == StrategySignSettled(found.val, env, r)
             IN  StrategyCall("sign_transaction", k, g.raised, g.res, mgr)

WithStrategyCheckConnection(k, r) ==
    LET found == with_strategy_mut(mgr, k)
    IN  IF ~found.ok THEN StrategyCall("check_connection", k, NoneV, found, mgr)
        ELSE StrategyCall("check_connection", k, NoneV,
                          StrategyCheckConnection(found.val, env, r), mgr)

\* <dyn WalletStrategy>::encrypt and decrypt: the trait defaults
\* (strategy.rs:133-140), which Wander repeats (wander.rs:190-201) and no
\* other strategy overrides
StrategyEncrypt(obj) == Err(InvalidPermissions)

StrategyDecrypt(obj) == Err(InvalidPermissions)

WithStrategyEncrypt(k) ==
    LET found == with_strategy_mut(mgr, k)
    IN  IF ~found.ok THEN StrategyCall("encrypt", k, NoneV, found, mgr)
        ELSE StrategyCall("encrypt", k, NoneV, StrategyEncrypt(found.val), mgr)

WithStrategyDecrypt(k) ==
    LET found == with_strategy_mut(mgr, k)
    IN  IF ~found.ok THEN StrategyCall("decrypt", k, NoneV, found, mgr)
        ELSE StrategyCall("decrypt", k, NoneV, StrategyDecrypt(found.val), mgr)

StrategyNext ==
    \/ \E obj \in ShippedStrategies : MgrRegister(obj)
    \/ \E k \in WalletStrategyType : \E answers \in ConnectAnswers(k) :
            WithStrategyConnect(k, answers)
    \/ \E k \in WalletStrategyType, r \in ProviderResults({Unit}) :
            WithStrategyDisconnect(k, r)
    \/ \E k \in WalletStrategyType, r \in ProviderResults({"map", "other"}) :
            WithStrategySign(k, r)
    \/ \E k \in WalletStrategyType, r \in ProviderResults(AddressStrings) :
            WithStrategyCheckConnection(k, r)
    \/ \E k \in WalletStrategyType : WithStrategyEncrypt(k)
    \/ \E k \in WalletStrategyType : WithStrategyDecrypt(k)

StrategySpec == Init /\ [][StrategyNext]_vars

\* The error classifier on its own: a provider throws a value, and
\* WalletError::from is applied to it.
MessageWords ==
    {"Wallet Not Installed", "undefined", "Denied", "REJECTED", "Network",
     "permission", "Sign", "design", "timeout", "x"}

CanonicalErrors ==
    {NotInstalled, UserDenied, NetworkError("timeout"), InvalidPermissions,
     TransactionFailed("timeout"), ConnectionFailed("timeout"),
     SigningFailed("timeout")}

ThrownValues ==
    LET texts == {a \o " " \o b : a, b \in MessageWords}
                    \cup {Display(e) : e \in CanonicalErrors}
    IN  {JsString(t) : t \in texts} \cup {JsObject(t) : t \in texts}

ClassifierInit ==
    /\ ext = ExtendedWalletStateDefault
    /\ manager = [s \in Services |-> WalletServiceNew]
    /\ pc = [s \in Services |-> "idle"]
    /\ overtaken = [s \in Services |-> FALSE]
    /\ envChanges = 0
    /\ mgr = ManagerNew
    /\ mgrRet = [op |-> "new"]
    /\ ui = UiUnmounted
    /\ race = RaceOff
    /\ storage = StorageEmpty
    /\ env = [arweaveWallet |-> FALSE, WalletClient |-> "undefined"]
    /\ \E js \in ThrownValues :
          last = [input |-> js] @@ Called("provider", "throw")

Classify ==
    /\ last.op = "throw"
    /\ last' = [input |-> last.input] @@
                  Returned("classifier", "from", Ok(FromJsValue(last.input)))
    /\ UNCHANGED <<ext, env, manager, pc, overtaken, envChanges, mgrVars, hookVars>>

ClassifierSpec == ClassifierInit /\ [][Classify]_vars

\* Start-up with whatever preference the store holds: the reconnect hook and
\* the tasks its callbacks spawn, in any order.
ReconnectInit == InitCommon /\ env \in EnvStates /\ storage \in StorageStates

ReconnectNext ==
    \/ UseWalletReconnect
    \/ \E i \in DOMAIN ui.spawned : SetStrategyTask(i)
    \/ \E i \in DOMAIN ui.spawned : ConnectTask(i)

ReconnectSpec == ReconnectInit /\ [][ReconnectNext]_vars

\* The status probe at both levels: check_connection of each strategy, after
\* any connects and disconnects, and WalletService::check_connection.
StatusNext ==
    \/ \E obj \in ShippedStrategies : MgrRegister(obj)
    \/ \E k \in WalletStrategyType : \E answers \in ConnectAnswers(k) :
            WithStrategyConnect(k, answers)
    \/ \E k \in WalletStrategyType, r \in ProviderResults({Unit}) :
            WithStrategyDisconnect(k, r)
    \/ \E k \in WalletStrategyType, r \in ProviderResults(AddressStrings) :
            WithStrategyCheckConnection(k, r)
    \/ \E k \in WalletStrategyType : SetStrategy(AppService, k)
    \/ \E r \in ProviderResults(AddressStrings) : CheckConnection(AppService, r)

StatusSpec == Init /\ [][StatusNext]_vars

-----------------------------------------------------------------------------
(* Properties of the session state under concurrent services (Spec) *)

ConnectReturned == last.op = "connect" /\ last.step = "return"

\* no call of any service is suspended on a provider, and none was cut off
AllSettled == \A s \in Services : pc[s] = "idle"

\* C1: right after a connect returned Ok(a), the session is connected, its
\* address is Some(a), a is not empty, and no error is recorded.
C1_ConnectOkLeavesSessionConnected ==
    (ConnectReturned /\ last.res.ok) =>
        /\ ext.base_state.connected
        /\ ext.base_state.address = Some(last.res.val)
        /\ last.res.val # ""
        /\ ext.base_state.error = NoneV

\* C2: right after a connect returned Err, the session is not connected, not
\* connecting, and records an error, whatever the state before the call.
C2_ConnectErrLeavesSessionDisconnected ==
    (ConnectReturned /\ ~last.res.ok) =>
        /\ ~ext.base_state.connected
        /\ ~ext.base_state.connecting
        /\ ext.base_state.error.some

\* C3: whenever every started operation has settled, connecting and
\* connected are not both true.
C3_SettledNotConnectingAndConnected ==
    AllSettled => ~(ext.base_state.connecting /\ ext.base_state.connected)

\* two connects overlapped, both have returned, and the session is connected
C3_Witness ==
    /\ AllSettled
    /\ ConnectReturned
    /\ last.overtaken
    /\ ext.base_state.connected
    /\ ~ext.base_state.connecting

\* C5: right after a connect or a disconnect has dispatched its provider
\* call, the session records no error.
C5_AttemptStartsWithErrorCleared ==
    (last.step = "call" /\ last.op \in {"connect", "disconnect"}) =>
        ext.base_state.error = NoneV

\* C6: when a connect returns Ok(a) after the connect of another service,
\* in flight at the same time, returned Ok, the session address is Some(a)
\* and connecting is false.
C6_LastResolvedConnectWins ==
    (ConnectReturned /\ last.res.ok /\ last.overtaken) =>
        /\ ext.base_state.address = Some(last.res.val)
        /\ ~ext.base_state.connecting

\* the connect that returned last overwrote a different address, the one the
\* other service's Beacon connect had returned while both were in flight
C6_Witness ==
    /\ ConnectReturned
    /\ last.res.ok
    /\ last.overtaken
    /\ AllSettled
    /\ ext.base_state.address = Some(last.res.val)
    /\ \E t \in Services \ {last.svc} :
          /\ manager[t].strategies["Beacon"].address.some
          /\ manager[t].strategies["Beacon"].address.val # last.res.val

\* C10: right after set_strategy(K) returned Ok, the session's strategy is K
\* and its capabilities are those K's get_capabilities declares.
C10_SetStrategyStoresCapabilities ==
    (last.op = "set_strategy" /\ last.res.ok) =>
        /\ ext.strategy = last.res.val
        /\ ext.capabilities =
             get_capabilities(manager[last.svc].strategies[last.res.val])

\* set_strategy(Beacon) returned Ok and the session holds Beacon's capabilities
C10_Witness ==
    /\ last.op = "set_strategy"
    /\ last.res = Ok("Beacon")
    /\ ext.strategy = "Beacon"
    /\ ext.capabilities = BeaconCapabilities

-----------------------------------------------------------------------------
(* Properties of one service used call after call (AppSpec) *)

\* C4: in every state reached by init, set_strategy, connect, disconnect and
\* sign_transaction calls, the session has an address exactly when it is
\* connected.
C4_AddressIffConnected ==
    ext.base_state.address.some <=> ext.base_state.connected

\* after init and a connect, a sign_transaction succeeded on a session that
\* is connected and has an address
C4_Witness ==
    /\ last.op = "sign_transaction"
    /\ last.res.ok
    /\ Len(ext.available_strategies) > 0
    /\ ext.base_state.connected
    /\ ext.base_state.address.some

-----------------------------------------------------------------------------
(* Properties of the strategy manager (MgrSpec) *)

\* the registered kinds whose probe answers Ok(true)
MgrProbedTrue == {k \in DOMAIN mgr.strategies : mgr.strategies[k].probe = "OkTrue"}

SeqToSet(q) == {q[i] : i \in DOMAIN q}

\* C7: get_available_strategies always returns a list, and the list holds
\* exactly the registered kinds whose probe returned Ok(true), each once: a
\* probe that returns Ok(false) or Err leaves out only its own kind.
C7_DiscoveryIsolatesProbeFailures ==
    mgrRet.op = "get_available_strategies" =>
        /\ SeqToSet(mgrRet.val) = MgrProbedTrue
        /\ Len(mgrRet.val) = Cardinality(MgrProbedTrue)

\* a discovery over a registry with a failing probe, a negative probe and a
\* positive one returned just the positive one
C7_Witness ==
    /\ mgrRet.op = "get_available_strategies"
    /\ \E k \in DOMAIN mgr.strategies : mgr.strategies[k].probe = "Err"
    /\ \E k \in DOMAIN mgr.strategies : mgr.strategies[k].probe = "OkFalse"
    /\ Len(mgrRet.val) = 1

\* the fixed priority Wander > Beacon > WalletKit > WebWallet
PriorityRank ==
    [k \in WalletStrategyType |->
        CASE k = "Wander" -> 1 [] k = "Beacon" -> 2
          [] k = "WalletKit" -> 3 [] k = "WebWallet" -> 4]

BestOf(S) == CHOOSE k \in S : \A j \in S : PriorityRank[k] <= PriorityRank[j]

\* C8: when some registered strategy is available, auto_select_strategy
\* returns the available kind that comes first in Wander > Beacon >
\* WalletKit > WebWallet and makes it current, whatever the iteration order.
C8_AutoSelectPicksHighestPriority ==
    (mgrRet.op = "auto_select_strategy" /\ MgrProbedTrue # {}) =>
        /\ mgrRet.res = Ok(BestOf(MgrProbedTrue))
        /\ mgr.current_strategy = Some(BestOf(MgrProbedTrue))

\* auto-selection fell back to Beacon while Wander was registered but
\* unavailable and a lower-priority kind was available too
C8_Witness ==
    /\ mgrRet.op = "auto_select_strategy"
    /\ "Wander" \in DOMAIN mgr.strategies
    /\ "Wander" \notin MgrProbedTrue
    /\ {"Beacon", "WebWallet"} \subseteq MgrProbedTrue
    /\ mgrRet.res = Ok("Beacon")

\* C9: when no registered strategy is available, auto_select_strategy
\* returns Err(NotInstalled) and the current strategy is what it was before.
C9_AutoSelectFailureKeepsCurrent ==
    (mgrRet.op = "auto_select_strategy" /\ MgrProbedTrue = {}) =>
        /\ mgrRet.res = Err(NotInstalled)
        /\ mgr.current_strategy = mgrRet.before

\* auto-selection failed on a manager that had a current strategy
C9_Witness ==
    /\ mgrRet.op = "auto_select_strategy"
    /\ mgrRet.res = Err(NotInstalled)
    /\ mgr.current_strategy.some
    /\ DOMAIN mgr.strategies # {}

-----------------------------------------------------------------------------
(* Properties of auto-selection through its two callers (SelectSpec) *)

\* the capabilities a kind declares (get_capabilities of its implementation)
DeclaredCapabilities(k) ==
    get_capabilities(CHOOSE obj \in ShippedStrategies : strategy_type(obj) = k)

\* this step is WalletService::init returning from a successful auto-selection
InitAutoSelects ==
    /\ pc[AppService] = "init_select"
    /\ last'.op = "init" /\ last'.step = "return" /\ last'.res.ok

\* this step is a successful WalletStrategyManager::auto_select_strategy
\* called on a manager that no service owns
MgrAutoSelects ==
    /\ <<mgr, mgrRet>>' # <<mgr, mgrRet>>
    /\ mgrRet'.op = "auto_select_strategy" /\ mgrRet'.res.ok

SessionShows(st, k) ==
    st.strategy = k /\ st.capabilities = DeclaredCapabilities(k)

\* C11 as stated: whichever caller auto-selects successfully and gets K, the
\* session state's strategy is K and its capabilities are K's afterwards.
C11_EveryAutoSelectSetsSession ==
    [][ /\ InitAutoSelects => SessionShows(ext', last'.res.val)
        /\ MgrAutoSelects => SessionShows(ext', mgrRet'.res.val) ]_vars

\* C11 amended: WalletService::init sets the session's strategy to the
\* selected K and its capabilities to K's; the manager's auto_select_strategy
\* on its own makes K the manager's current strategy and leaves the session
\* state as it was.
C11_InitAutoSelectSetsSession ==
    [][ /\ InitAutoSelects => SessionShows(ext', last'.res.val)
        /\ MgrAutoSelects =>
              /\ mgr'.current_strategy = Some(mgrRet'.res.val)
              /\ ext' = ext ]_vars

\* init fell back to Beacon and recorded it; a manager used alone selected
\* Wander and the session still shows Beacon
C11_Witness ==
    /\ last.op = "init" /\ last.step = "return" /\ last.res = Ok("Beacon")
    /\ SessionShows(ext, "Beacon")
    /\ mgrRet.op = "auto_select_strategy" /\ mgrRet.res = Ok("Wander")
    /\ mgr.current_strategy = Some("Wander")

-----------------------------------------------------------------------------
(* Properties of explicit selection *)

\* this step is a return of WalletService::set_strategy
SetStrategyReturns == last'.op = "set_strategy" /\ last'.step = "return"

\* C12: set_strategy(K) succeeds only for a registered K; for any other K it
\* returns Err(ConnectionFailed) and the manager's current strategy and every
\* field of the session state stay as they were (Spec).
C12_SetStrategyUnregisteredChangesNothing ==
    [][ SetStrategyReturns =>
          IF last'.res.ok
          THEN last'.res.val \in DOMAIN manager[last'.svc].strategies
          ELSE /\ last'.res.err.kind = "ConnectionFailed"
               /\ manager' = manager
               /\ ext' = ext ]_vars

\* an unregistered kind was refused while the session was connected and the
\* refusing service had a strategy selected
C12_Witness ==
    /\ last.op = "set_strategy" /\ ~last.res.ok
    /\ ext.base_state.connected
    /\ ext.base_state.address.some
    /\ manager[last.svc].current_strategy.some

\* C13: a successful set_strategy(K) writes the strategy and the capabilities
\* and nothing else: the connection fields and the discovered list are
\* untouched, and no strategy is disconnected, not even the one the session
\* is connected through (AppSpec).
C13_SetStrategyChangesOnlySelection ==
    [][ (SetStrategyReturns /\ last'.res.ok) =>
          /\ SessionShows(ext', last'.res.val)
          /\ ext'.base_state = ext.base_state
          /\ ext'.available_strategies = ext.available_strategies
          /\ manager'[last'.svc].strategies = manager[last'.svc].strategies
          /\ pc' = pc ]_vars

\* Wander was selected while the session was connected through Beacon, which
\* is still connected afterwards
C13_Witness ==
    /\ last.op = "set_strategy" /\ last.res = Ok("Wander")
    /\ ext.base_state.connected /\ ext.base_state.address.some
    /\ ext.available_strategies # << >>
    /\ manager[last.svc].strategies["Beacon"].connected
    /\ ext.strategy = "Wander"

-----------------------------------------------------------------------------
(* Properties of dispatch to the active strategy *)

\* what the connect of strategy obj, suspended at position p, can return
\* once its provider answers
StrategyConnectSettles(obj, p) ==
    CASE p = "wander_connect" ->
            {Err(WalletErrorFrom[j]) : j \in JsErrors}
      [] p = "wander_address" ->
            {WanderAddressResult(r) : r \in ProviderResults(AddressStrings)}
      [] p = "beacon_connect" ->
            {BeaconConnectResult(obj, r).res :
                r \in ProviderResults(BeaconConnectResponses)}
      [] OTHER -> {}

\* C14: connect on a service with no active strategy returns
\* Err(NotInstalled) at once, with no strategy object touched and no provider
\* call started; with an active strategy, what connect returns is what that
\* strategy's connect returned (Spec).
C14_ConnectFailsAsTheStrategyDoes ==
    [][ last'.op = "connect" =>
          LET s == last'.svc
              cur == get_current_strategy(manager[s])
          IN  IF ~cur.some
              THEN pc[s] = "idle" =>
                     /\ last'.step = "return"
                     /\ last'.res = Err(NotInstalled)
                     /\ manager' = manager
                     /\ pc' = pc
              ELSE last'.step = "return" =>
                     IF pc[s] = "idle"
                     THEN last'.res = StrategyConnect(cur.val, env).res
                     ELSE last'.res \in StrategyConnectSettles(cur.val, pc[s]) ]_vars

\* a connect through Beacon returned the error Beacon built from a provider
\* rejection
C14_Witness ==
    /\ last.op = "connect" /\ last.step = "return" /\ ~last.res.ok
    /\ manager[last.svc].current_strategy = Some("Beacon")
    /\ last.res.err.kind = "ConnectionFailed"
    /\ ext.base_state.error = Some(Display(last.res.err))

\* C15: once a service's set_strategy(K) has succeeded, the next connect or
\* disconnect made through any service of the application (the UI callbacks
\* build one service per call) is dispatched to K (Spec).
C15_NextRequestGoesToSelected ==
    [][ ( /\ last.op = "set_strategy" /\ last.res.ok
          /\ last'.op \in {"connect", "disconnect"} ) =>
        manager[last'.svc].current_strategy = Some(last.res.val) ]_vars

-----------------------------------------------------------------------------
(* Properties of disconnect *)

\* this step is a return of WalletService::disconnect
DisconnectReturns == last'.op = "disconnect" /\ last'.step = "return"

\* C16: when disconnect returns Ok the session has connected = false, no
\* address, no permissions and no error; when it returns Err the error is
\* stored and every other field of the session state is as it was (Spec).
C16_DisconnectOutcomeWrites ==
    [][ DisconnectReturns =>
          IF last'.res.ok
          THEN /\ ~ext'.base_state.connected
               /\ ext'.base_state.address = NoneV
               /\ ext'.base_state.permissions = << >>
               /\ ext'.base_state.error = NoneV
          ELSE ext' = [ext EXCEPT
                         !.base_state.error = Some(Display(last'.res.err))] ]_vars

\* a disconnect failed on a connected session, which is still connected with
\* its address and permissions and now shows the error
C16_Witness ==
    /\ last.op = "disconnect" /\ last.step = "return" /\ ~last.res.ok
    /\ ext.base_state.connected
    /\ ext.base_state.address.some
    /\ ext.base_state.permissions = RequestedPermissions
    /\ ext.base_state.error = Some(Display(last.res.err))

\* C17: a disconnect called on a disconnected session and returning without
\* waiting for a provider returns Ok and changes nothing but error, which
\* becomes None; with or without an active strategy (Spec).
C17_DisconnectWhenDisconnectedIsOk ==
    [][ ( /\ DisconnectReturns
          /\ pc[last'.svc] = "idle"
          /\ ~ext.base_state.connected ) =>
        /\ last'.res.ok
        /\ ext' = [ext EXCEPT !.base_state.error = NoneV] ]_vars

-----------------------------------------------------------------------------
(* Properties of sign_transaction and of error reporting (AppSpec) *)

\* C19: sign_transaction returns Err(NotInstalled) when the service has no
\* active strategy, and otherwise what the active strategy's sign_transaction
\* returns for the same provider answer.
C19_SignDelegatesToActiveStrategy ==
    [][ last'.op = "sign_transaction" =>
          LET cur == get_current_strategy(manager[last'.svc])
          IN  IF ~cur.some
              THEN last'.res = Err(NotInstalled)
              ELSE last'.res = StrategySign(cur.val, env, last'.answer) ]_vars

\* a sign_transaction through Wander returned the provider's rejection as
\* the strategy classified it
C19_Witness ==
    /\ last.op = "sign_transaction" /\ ~last.res.ok
    /\ manager[last.svc].current_strategy = Some("Wander")
    /\ ~last.answer.ok
    /\ last.res.err = WalletErrorFrom[last.answer.err]
    /\ last.res.err.kind # "SigningFailed"

\* C20: when connect, disconnect or sign_transaction has returned a failure,
\* the session state's error field holds that failure's message.
C20_ReturnedFailureIsRecorded ==
    ( /\ last.step = "return"
      /\ last.op \in {"connect", "disconnect", "sign_transaction"}
      /\ ~last.res.ok ) =>
    ext.base_state.error = Some(Display(last.res.err))

-----------------------------------------------------------------------------
(* Properties of the strategy implementations (StrategySpec) *)

\* strategy obj holds no connection: Beacon by its own flag, Wander when its
\* provider object does not exist, the unintegrated strategies always
NotConnected(obj, e) ==
    CASE obj.impl = "Beacon" -> ~obj.connected
      [] obj.impl = "Wander" -> ~is_wallet_available(e)
      [] OTHER -> TRUE

\* C18: for each of the four implementations, disconnect on a strategy that
\* is not connected returns Ok(()) and leaves the strategy's own state as it
\* was, so that a second disconnect does what the first did.
C18_DisconnectNotConnectedIsOk ==
    ( /\ mgrRet.op = "disconnect"
      /\ mgrRet.before.some
      /\ NotConnected(mgrRet.before.val, env) ) =>
    /\ mgrRet.res = Ok(Unit)
    /\ mgr.strategies[mgrRet.kind] = mgrRet.before.val

\* C21: for each implementation, sign_transaction on a strategy that is not
\* connected fails, and the failure is SigningFailed.
C21_SignNotConnectedIsSigningFailed ==
    ( /\ mgrRet.op = "sign_transaction"
      /\ mgrRet.before.some
      /\ NotConnected(mgrRet.before.val, env) ) =>
    /\ ~mgrRet.res.ok
    /\ mgrRet.res.err.kind = "SigningFailed"

-----------------------------------------------------------------------------
(* Properties of the status probe (StatusSpec) *)

\* C22: check_connection of a registered strategy returns Ok(true) or
\* Ok(false), never Err, whatever the provider's state and answer; and
\* WalletService::check_connection returns Ok(true) or Ok(false) too, Ok(false)
\* when the service has no active strategy.
C22_CheckConnectionNeverFails ==
    /\ (mgrRet.op = "check_connection" /\ mgrRet.before.some) =>
          mgrRet.res \in {Ok(TRUE), Ok(FALSE)}
    /\ last.op = "check_connection" =>
          /\ last.res \in {Ok(TRUE), Ok(FALSE)}
          /\ ~manager[last.svc].current_strategy.some => last.res = Ok(FALSE)

\* the service asked Wander while its provider rejected the address query and
\* got Ok(false); a connected Beacon strategy asked directly said Ok(true)
C22_Witness ==
    /\ last.op = "check_connection" /\ last.res = Ok(FALSE)
    /\ manager[last.svc].current_strategy = Some("Wander")
    /\ is_wallet_available(env) /\ ~last.answer.ok
    /\ mgrRet.op = "check_connection" /\ mgrRet.kind = "Beacon"
    /\ mgrRet.res = Ok(TRUE)

-----------------------------------------------------------------------------
(* Properties of reconnect-on-start (ReconnectSpec) *)

\* C24: when the connect attempted by the reconnect flow has failed, the
\* persisted preference is gone: neither the connected flag nor the strategy
\* is left in the store.
C24_FailedReconnectDeletesPreference ==
    (ui.attempt.some /\ ~ui.attempt.val.ok) => storage = StorageEmpty

-----------------------------------------------------------------------------
(* Properties of the error classifier (ClassifierSpec) *)

\* the classification rules in their order: the words looked for, the kind
Rules ==
    << [keys |-> {"not installed", "undefined"}, kind |-> "NotInstalled"],
       [keys |-> {"denied", "rejected"}, kind |-> "UserDenied"],
       [keys |-> {"network"}, kind |-> "NetworkError"],
       [keys |-> {"permission"}, kind |-> "InvalidPermissions"],
       [keys |-> {"sign"}, kind |-> "SigningFailed"] >>

\* the message of a thrown value: the string itself, else its Debug text
RawMessage(js) == IF js.isString THEN js.text ELSE DebugFmt(js)

RuleMatches(i, msg) ==
    \E key \in Rules[i].keys : Contains(ToLowercase(msg), key)

FirstRuleKind(msg) ==
    IF \E i \in DOMAIN Rules : RuleMatches(i, msg)
    THEN LET first == CHOOSE i \in DOMAIN Rules :
                        /\ RuleMatches(i, msg)
                        /\ \A j \in 1..(i - 1) : ~RuleMatches(j, msg)
         IN  Rules[first].kind
    ELSE "ConnectionFailed"

\* C25: the classifier gives every message the kind of the first rule that
\* matches it, letter case ignored, and ConnectionFailed carrying the raw
\* message when no rule matches.
C25_ClassifierTakesFirstMatchingRule ==
    last.op = "from" =>
      LET msg == RawMessage(last.input)
          e == last.res.val
      IN  /\ e.kind = FirstRuleKind(msg)
          /\ e.kind \in {"NetworkError", "SigningFailed", "ConnectionFailed"} =>
                e.msg = msg

\* an upper-case message matching the second and the fifth rule was given the
\* kind of the second
C25_Witness ==
    /\ last.op = "from"
    /\ last.input = JsString("REJECTED Sign")
    /\ last.res.val = UserDenied

\* C26: classifying the Display text of an error of kind k gives kind k
\* again, for each of the seven kinds.
C26_ClassifierIdempotent ==
    last.op = "from" =>
      \A e \in CanonicalErrors :
        last.input = JsString(Display(e)) => last.res.val.kind = e.kind

-----------------------------------------------------------------------------
(* Provider failures as the strategies report them (StrategySpec) *)

\* C27: a failure the provider raised during a strategy's connect,
\* disconnect or sign_transaction is returned as the error kind the
\* classifier gives that failure, whichever the strategy.
C27_ProviderFailureIsClassified ==
    (/\ mgrRet.op \in {"connect", "disconnect", "sign_transaction"}
     /\ mgrRet.raised.some)
        => /\ ~mgrRet.res.ok
           /\ mgrRet.res.err.kind = FromJsValue(mgrRet.raised.val).kind

-----------------------------------------------------------------------------
(* The strategies without an integration, the probes, and the session state
   with no strategy selected *)

Unimplemented == {WalletKitStrategyNew, WebWalletStrategyNew}

FailsAs(res, kind) == ~res.ok /\ res.err.kind = kind

\* C28: WalletKit and WebWallet never succeed: connect and get_active_address
\* fail with ConnectionFailed, sign_transaction with SigningFailed,
\* check_connection is Ok(false); auto-selection never picks them and the
\* session is never connected through them.
C28_UnimplementedNeverSucceedNorSelected ==
    /\ \A obj \in Unimplemented, r \in ProviderResults(AddressStrings) :
          /\ FailsAs(StrategyConnectSettled(obj, env, << >>).res, "ConnectionFailed")
          /\ FailsAs(StrategyGetActiveAddress(obj, env, r), "ConnectionFailed")
          /\ StrategyCheckConnection(obj, env, r) = Ok(FALSE)
    /\ \A obj \in Unimplemented, r \in ProviderResults({"map", "other"}) :
          FailsAs(StrategySign(obj, env, r), "SigningFailed")
    /\ (mgrRet.op = "auto_select_strategy" /\ mgrRet.res.ok) =>
          mgrRet.res.val \notin {"WalletKit", "WebWallet"}
    /\ ext.base_state.connected => ext.strategy \notin {"WalletKit", "WebWallet"}

\* a step in which strategies are probed: init's discovery, or the manager's
\* get_available_strategies or auto_select_strategy
ProbeStep ==
    \/ last' # last /\ last'.op = "init"
    \/ mgrRet' # mgrRet
          /\ mgrRet'.op \in {"get_available_strategies", "auto_select_strategy"}

\* C29: probing the strategies changes neither the provider environment, nor
\* any strategy's own fields, nor the session's connection state.
C29_ProbingChangesNothing ==
    [][ ProbeStep =>
          /\ env' = env
          /\ mgr'.strategies = mgr.strategies
          /\ \A s \in Services : manager'[s].strategies = manager[s].strategies
          /\ ext'.base_state.connected = ext.base_state.connected
          /\ ext'.base_state.address = ext.base_state.address ]_vars

AllFlags(caps) ==
    {caps.can_sign_transactions, caps.can_encrypt_data, caps.can_decrypt_data,
     caps.supports_batch_signing, caps.supports_permissions,
     caps.supports_multiple_addresses}

\* C30: while the service has no strategy selected, every capability flag of
\* the session state is false and the state names no strategy kind.
C30_NoStrategyNoCapabilities ==
    ~manager[AppService].current_strategy.some =>
        /\ AllFlags(ext.capabilities) = {FALSE}
        /\ ext.strategy \notin WalletStrategyType

-----------------------------------------------------------------------------
(* The session's permissions list (Spec) *)

\* C31: when a connect has returned Ok the session's permissions are the
\* requested list in its order, and the list is non-empty only while the
\* session is connected.
C31_PermissionsAreTheRequestedList ==
    /\ (last.op = "connect" /\ last.step = "return" /\ last.res.ok) =>
          ext.base_state.permissions = RequestedPermissions
    /\ ext.base_state.permissions # << >> => ext.base_state.connected

\* a connect returned Ok and the connected session holds the requested list
C31_Witness ==
    /\ last.op = "connect" /\ last.step = "return" /\ last.res.ok
    /\ ext.base_state.permissions = RequestedPermissions
    /\ ext.base_state.connected

-----------------------------------------------------------------------------
(* Connects in flight on the shared session state (Spec) *)

\* C32: while the provider call of a connect has not resolved, the session
\* state keeps connecting = true: no step of any other operation resets it.
C32_PendingConnectKeepsConnecting ==
    \A s \in Services :
        pc[s] \in ConnectPcs => ext.base_state.connecting

-----------------------------------------------------------------------------
(* A disconnect begun after a connect (RaceSpec) *)

\* C33: when a disconnect was begun while a connect was in flight and both
\* have returned Ok, in whichever order, the session is disconnected:
\* connected is false and there is no address.
C33_DisconnectAfterConnectWins ==
    BothSettled =>
        ~ext.base_state.connected /\ ext.base_state.address = NoneV

-----------------------------------------------------------------------------
(* The address and the strategy the session names (Spec) *)

\* C34: the address of a connected session was returned by the connect of
\* the strategy that the session's strategy field names: when a connect has
\* returned Ok, the field names the strategy that connect went to.
C34_AddressIsOfTheNamedStrategy ==
    (last.op = "connect" /\ last.step = "return" /\ last.res.ok) =>
        /\ ext.base_state.connected
        /\ ext.base_state.address = Some(last.res.val)
        /\ manager[last.svc].current_strategy = Some(ext.strategy)

-----------------------------------------------------------------------------
(* The session state that init leaves (SelectSpec) *)

\* C35: when init has returned, available is true exactly when
\* available_strategies is non-empty, and then the session's strategy is one
\* of available_strategies and the capabilities are that strategy's, also
\* when the providers changed between init's two probes.
C35_InitLeavesConsistentSession ==
    (last.op = "init" /\ last.step = "return") =>
        /\ ext.base_state.available <=> Len(ext.available_strategies) # 0
        /\ Len(ext.available_strategies) # 0 =>
              /\ SeqContains(ext.available_strategies, ext.strategy)
              /\ ext.capabilities = DeclaredCapabilities(ext.strategy)

-----------------------------------------------------------------------------
(* The manager's selection and its registry (MgrSpec) *)

\* C36: the manager's current_strategy is None or a registered kind, so
\* with_current_strategy_mut fails only when no strategy is selected.
C36_CurrentStrategyIsRegistered ==
    /\ mgr.current_strategy.some => mgr.current_strategy.val \in DOMAIN mgr.strategies
    /\ ~with_current_strategy_mut(mgr).ok => ~mgr.current_strategy.some

\* a set_strategy of an unregistered kind failed on a manager that has a
\* strategy selected
C36_Witness ==
    /\ mgrRet.op = "set_strategy" /\ ~mgrRet.res.ok
    /\ mgr.current_strategy.some
    /\ with_current_strategy_mut(mgr).ok

-----------------------------------------------------------------------------
(* The Beacon strategy's own fields (StrategySpec) *)

BeaconFields(obj) == <<obj.connected, obj.address>>

\* C37: a registered Beacon strategy has connected = true exactly when its
\* address is Some, and a connect or disconnect of it that failed left both
\* fields as they were.
C37_BeaconBookkeepingConsistent ==
    "Beacon" \in DOMAIN mgr.strategies =>
        LET b == mgr.strategies["Beacon"]
        IN  /\ b.connected <=> b.address.some
            /\ ( /\ mgrRet.op \in {"connect", "disconnect"}
                 /\ mgrRet.kind = "Beacon"
                 /\ mgrRet.before.some
                 /\ ~mgrRet.res.ok )
                => BeaconFields(b) = BeaconFields(mgrRet.before.val)

\* a disconnect of a connected Beacon strategy was rejected by the provider
C37_Witness ==
    /\ "Beacon" \in DOMAIN mgr.strategies
    /\ mgrRet.op = "disconnect" /\ mgrRet.kind = "Beacon"
    /\ mgrRet.raised.some /\ ~mgrRet.res.ok
    /\ mgr.strategies["Beacon"].connected
    /\ mgr.strategies["Beacon"].address.some

-----------------------------------------------------------------------------
(* The read-style operations of the service (AppSpec) *)

ReadOps ==
    {"get_available_strategies", "get_active_address", "sign_transaction",
     "check_connection"}

\* this step is a read-style operation of a service returning
ReadStep == last'.op \in ReadOps

\* C38: get_available_strategies, get_active_address, sign_transaction and
\* check_connection leave the session state and the manager's current
\* strategy as they were, whether they return Ok or Err.
C38_ReadOperationsWriteNothing ==
    [][ ReadStep =>
          /\ ext' = ext
          /\ manager'[last'.svc].current_strategy
                = manager[last'.svc].current_strategy ]_vars

\* a get_active_address failed on a session that shows a connection and no
\* error
C38_Witness ==
    /\ last.op = "get_active_address" /\ ~last.res.ok
    /\ ext.base_state.connected
    /\ ext.base_state.error = NoneV

-----------------------------------------------------------------------------
(* Declared capabilities and encrypt / decrypt (StrategySpec) *)

NotSupported(res) == res = Err(InvalidPermissions)

-----------------------------------------------------------------------------
(* The persisted strategy name (ReconnectSpec) *)

\* the kinds whose persisted name is str
KindsNamed(str) == {k \in WalletStrategyType : StrategyToString(k) = str}

\* the set_strategy calls the reconnect hook has spawned
RestoredKinds ==
    {ui.spawned[i].arg : i \in {j \in DOMAIN ui.spawned :
                                    ui.spawned[j].op = "set_strategy"}}

\* C40: parsing the persisted name of a kind gives that kind and every other
\* string fails to parse, so the reconnect hook restores exactly the kind
\* whose name the store holds, and none for any other string.
C40_StrategyNameRoundTrips ==
    /\ \A k \in WalletStrategyType : StrategyFromStr(StrategyToString(k)) = Ok(k)
    /\ (last.op = "use_wallet_reconnect" /\ storage.strategy.some) =>
          /\ RestoredKinds = KindsNamed(storage.strategy.val)
          /\ KindsNamed(storage.strategy.val) = {}
                => ~StrategyFromStr(storage.strategy.val).ok
    /\ ( /\ last.op = "set_strategy" /\ last.step = "return" /\ last.res.ok
         /\ storage.strategy.some )
        => /\ storage.strategy.val = StrategyToString(last.res.val)
           /\ ext.strategy = last.res.val

\* the store held "Beacon" and the hook's set_strategy restored Beacon
C40_Witness ==
    /\ storage.strategy = Some(StrategyToString("Beacon"))
    /\ last.op = "set_strategy" /\ last.res = Ok("Beacon")
    /\ ext.strategy = "Beacon"

====
